---- MODULE Spec2Model ----
(***************************************************************************)
(* Model of the in-memory store (server/storage.ts, class MemStorage) and  *)
(* of the request handlers that call it (server/routes.ts).                *)
(*                                                                         *)
(* A JavaScript Map is a sequence of entries in insertion order: each      *)
(* entry carries the key it is stored under (field key) next to the fields *)
(* of the record.  Map.set on a present key replaces the entry in place,   *)
(* on an absent key appends.                                               *)
(*                                                                         *)
(* The event loop runs one handler segment at a time; a segment ends at an *)
(* await on real asynchronous work (bcrypt.hash, bcrypt.compare).  Awaits  *)
(* on already settled promises are microtasks, which all run before the    *)
(* next request is handled.                                                *)
(***************************************************************************)
EXTENDS Integers, Sequences, FiniteSets, TLC

(* ---------------------------- bounds ----------------------------------- *)
\* users that may be created, the seeded administrator included
MaxUsers == 2
\* clock values 0..MaxTime
MaxTime == 1
\* asynchronous calls that may be in flight together
MaxPending == 2
\* stored tool-usage events when every kind of event may be recorded
MaxUsages == 3
\* stored tool-usage events when the log holds the events of one tool
MaxBase == 80
\* ad slots that may be created, the three default slots included
MaxSlots == 4
\* users that may be created where calls of createUser overlap, the administrator included
MaxRaced == 3

(* ---------------------------- inputs ----------------------------------- *)
AdminEmail == "admin@toolsuitepro.com"
AdminName == "admin"
AdminPassword == "admin123"
Emails == {AdminEmail, "bob@example.com"}
Usernames == {AdminName, "bob"}
Passwords == {AdminPassword, "hunter2"}
\* the role of an InsertUser: "" stands for an absent (falsy) role
InputRoles == {"", "admin"}
ToolNames == {"pdf-to-word", "merge-pdf"}
Categories == {"pdf"}
\* processingTime of an InsertToolUsage: absent stands for a missing value
absent == 0 - 1
ProcessingTimes == {absent, 100, 200}
\* identifiers a caller may name: those of the users, and one that is never handed out
Ids == 1..(MaxUsers + 1)

\* the value of a lookup that found nothing
undefined == [undefined |-> TRUE]

(* ------------------------- Map as a sequence --------------------------- *)
Keys(m) == {m[i].key : i \in DOMAIN m}

HasKey(m, k) == \E i \in DOMAIN m : m[i].key = k

IndexOf(m, k) == CHOOSE i \in DOMAIN m : m[i].key = k

MapGet(m, k) == IF HasKey(m, k) THEN m[IndexOf(m, k)] ELSE undefined

MapSet(m, k, v) ==
  IF HasKey(m, k) THEN [m EXCEPT ![IndexOf(m, k)] = v] ELSE Append(m, v)

\* Array.prototype.find: the first element satisfying the predicate
FindFirst(m, P(_)) ==
  IF \E i \in DOMAIN m : P(m[i])
  THEN m[CHOOSE i \in DOMAIN m : P(m[i]) /\ \A j \in 1..(i - 1) : ~P(m[j])]
  ELSE undefined

(* ------------------------------ bcrypt --------------------------------- *)
\* bcrypt.hash(plain, 10): a digest of the plaintext.  The salt is not modelled: no
\* operation reads a digest other than bcrypt.compare, which accepts every digest of
\* the plaintext whatever its salt.
BcryptHash(plain) == [kind |-> "hash", plain |-> plain]

\* a string that is no bcrypt digest, stored as it was supplied
Plaintext(text) == [kind |-> "plain", text |-> text]

\* bcrypt.compare(plain, stored): true iff stored is a digest of plain
BcryptCompare(plain, stored) == stored.kind = "hash" /\ stored.plain = plain

VARIABLES users, toolUsages, adSlots, nextId, now, adminPc, slotPc, pending, resp

vars == <<users, toolUsages, adSlots, nextId, now, adminPc, slotPc, pending, resp>>

(* ------------------------- bootstrap data ------------------------------ *)
defaultSlots ==
  << [name |-> "Home Page Top Banner", position |-> "home-top", page |-> "home", isActive |-> TRUE],
     [name |-> "PDF Tools Banner", position |-> "pdf-tools-top", page |-> "pdf-tools", isActive |-> TRUE],
     [name |-> "Tool Interface Top", position |-> "tool-top", page |-> "universal-tool", isActive |-> TRUE] >>

\* the record createAdSlot builds: { id, ...adSlot, createdAt: new Date() }
newAdSlot(id, adSlot, t) ==
  [key |-> id, id |-> id, name |-> adSlot.name, position |-> adSlot.position,
   page |-> adSlot.page, isActive |-> adSlot.isActive, createdAt |-> t]

(* ------------------------------ users ---------------------------------- *)
getUserByEmail(us, email) == FindFirst(us, LAMBDA u : u.email = email)

getUserByUsername(us, username) == FindFirst(us, LAMBDA u : u.username = username)

getUser(us, id) == MapGet(us, id)

\* the record createUser builds once the hash is there
newUser(id, insertUser, hashedPassword, t) ==
  [key |-> id, id |-> id, username |-> insertUser.username, email |-> insertUser.email,
   password |-> hashedPassword,
   role |-> IF insertUser.role # "" THEN insertUser.role ELSE "user",
   createdAt |-> t, updatedAt |-> t]

UserFields == {"id", "username", "email", "password", "role", "createdAt", "updatedAt"}

\* the spread in the other order: { ...updates, ...user, updatedAt: new Date() }
mergeUserStale(user, updates, t) ==
  [f \in DOMAIN user |-> IF f = "updatedAt" THEN t ELSE user[f]]

\* { ...user, ...updates, updatedAt: new Date() }
mergeUser(user, updates, t) ==
  [f \in DOMAIN user |->
     IF f = "updatedAt" THEN t
     ELSE IF f \in DOMAIN updates THEN updates[f]
     ELSE user[f]]

\* updateUser without its early return: an absent id is stored as a new record
updateUserUpsert(us, id, updates, t) ==
  IF ~HasKey(us, id)
  THEN [users |-> Append(us, updates), result |-> updates]
  ELSE [users |-> MapSet(us, id, mergeUser(MapGet(us, id), updates, t)),
        result |-> mergeUser(MapGet(us, id), updates, t)]

\* updateUser: the collection and the value returned
updateUser(us, id, updates, t) ==
  IF ~HasKey(us, id)
  THEN [users |-> us, result |-> undefined]
  ELSE [users |-> MapSet(us, id, mergeUser(MapGet(us, id), updates, t)),
        result |-> mergeUser(MapGet(us, id), updates, t)]

\* the user of a response with nothing removed
withPassword(user) == user

\* the user of a response: const { password: _, ...userResponse } = user
withoutPassword(user) == [f \in (DOMAIN user) \ {"password"} |-> user[f]]

\* an updateSchema that keeps every field of a request body
profileFieldsAll(body) == body

\* the fields the profile route's updateSchema keeps of a request body
profileFields(body) == [f \in (DOMAIN body) \cap {"username", "email"} |-> body[f]]

\* Partial<User> objects a caller may pass to updateUser
noUpdates == [f \in {} |-> ""]

Updates ==
  {noUpdates}
    \cup {[email |-> e] : e \in Emails}
    \cup {[username |-> u] : u \in Usernames}
    \cup {[password |-> Plaintext(p)] : p \in {"hunter2"}}
    \cup {[role |-> "admin"]}

InsertUsers == [username : Usernames, email : Emails, password : Passwords, role : InputRoles]

\* a request body its route's schema rejects
malformed == [malformed |-> TRUE]

RegisterBodies == {malformed} \cup [username : Usernames, email : Emails, password : Passwords]

ProfileBodies == {malformed} \cup Updates

(* ------------------- IEEE 754 double arithmetic ------------------------ *)
(* A JavaScript number is a double.  A positive double is [limbs, exp]: its *)
(* significand, an integer of 53 bits written in base 2^13 (most            *)
(* significant limb first), and the exponent of its last bit: the value is  *)
(* the significand times 2^exp.  Zero has no limbs.  Division and           *)
(* multiplication round to nearest, ties to even.  The operands that occur  *)
(* (counts of events, sums of processing times) are integers below 2^17.    *)
\* bits of the significand of a double
Precision == 53

Base == 2 ^ 13

\* how many limbs, and how many bits more, make n bits
wholeLimbs(n) == n \div 13

oddBits(n) == n % 13

\* the number of bits of an integer n >= 1
bitLength(n) == CHOOSE k \in 1..30 : 2 ^ (k - 1) <= n /\ n < 2 ^ k

RECURSIVE limbsOfNat(_)
limbsOfNat(n) == IF n = 0 THEN << >> ELSE Append(limbsOfNat(n \div Base), n % Base)

RECURSIVE natOfLimbs(_)
natOfLimbs(limbs) ==
  IF limbs = << >> THEN 0
  ELSE Base * natOfLimbs(SubSeq(limbs, 1, Len(limbs) - 1)) + limbs[Len(limbs)]

\* limbs without leading zero limbs
RECURSIVE trimmed(_)
trimmed(limbs) ==
  IF limbs = << >> \/ limbs[1] # 0 THEN limbs ELSE trimmed(Tail(limbs))

\* the number of bits of the integer the limbs spell (no leading zero limb)
bitsOf(limbs) ==
  IF limbs = << >> THEN 0 ELSE bitLength(limbs[1]) + 13 * (Len(limbs) - 1)

\* limbs + 1
RECURSIVE increment(_)
increment(limbs) ==
  IF limbs = << >> THEN << 1 >>
  ELSE IF limbs[Len(limbs)] + 1 < Base THEN [limbs EXCEPT ![Len(limbs)] = @ + 1]
  ELSE Append(increment(SubSeq(limbs, 1, Len(limbs) - 1)), 0)

\* the limbs without their last d bits, for d < 13
shiftRight(limbs, d) ==
  trimmed([i \in DOMAIN limbs |->
             (limbs[i] \div (2 ^ d))
               + ((IF i > 1 THEN limbs[i - 1] ELSE 0) % (2 ^ d)) * (2 ^ (13 - d))])

\* the limbs without their last n bits
dropBits(limbs, n) ==
  IF wholeLimbs(n) >= Len(limbs) THEN << >>
  ELSE shiftRight(SubSeq(limbs, 1, Len(limbs) - wholeLimbs(n)), oddBits(n))

\* bit n (0 is the last) of the integer the limbs spell
bitAt(limbs, n) ==
  IF wholeLimbs(n) >= Len(limbs) THEN 0
  ELSE (limbs[Len(limbs) - wholeLimbs(n)] \div (2 ^ oddBits(n))) % 2

\* the double nearest to (limbs + rest) * 2^exp, where limbs has Precision bits and rest
\* in [0, 1) is "low" (below one half), "half" or "high" (above one half)
roundToEven(limbs, exp, rest) ==
  IF rest = "high" \/ (rest = "half" /\ bitAt(limbs, 0) = 1)
  THEN IF bitsOf(increment(limbs)) > Precision
       THEN [limbs |-> shiftRight(increment(limbs), 1), exp |-> exp + 1]
       ELSE [limbs |-> increment(limbs), exp |-> exp]
  ELSE [limbs |-> limbs, exp |-> exp]

\* the double nearest to limbs * 2^exp, where limbs has Precision bits or up to 12 more
rounded(limbs, exp) ==
  LET d == bitsOf(limbs) - Precision
      dropped == limbs[Len(limbs)] % (2 ^ d)
  IN IF d = 0 THEN [limbs |-> limbs, exp |-> exp]
     ELSE roundToEven(shiftRight(limbs, d), exp + d,
            IF dropped > 2 ^ (d - 1) THEN "high"
            ELSE IF dropped = 2 ^ (d - 1) THEN "half" ELSE "low")

\* long division by b: m more limbs of the quotient after those in limbs, r the remainder
RECURSIVE quotient(_, _, _, _)
quotient(limbs, r, b, m) ==
  IF m = 0 THEN [limbs |-> limbs, r |-> r]
  ELSE quotient(Append(limbs, (r * Base) \div b), (r * Base) % b, b, m - 1)

\* the k for which a * 2^k / b has Precision bits before the point
scale(a, b) ==
  IF a >= b
  THEN (Precision - 1) - (CHOOSE p \in 0..17 : b * (2 ^ p) <= a /\ a < b * (2 ^ (p + 1)))
  ELSE (Precision - 1) + (CHOOSE p \in 1..17 : a * (2 ^ p) >= b /\ a * (2 ^ (p - 1)) < b)

\* a / b for integers a >= 0 and b > 0 (both exact as doubles)
divide(a, b) ==
  IF a = 0 THEN [limbs |-> << >>, exp |-> 0]
  ELSE LET k == scale(a, b)
           first == a * (2 ^ oddBits(k))
           q == quotient(limbsOfNat(first \div b), first % b, b, wholeLimbs(k))
       IN roundToEven(trimmed(q.limbs), 0 - k,
            IF 2 * q.r > b THEN "high" ELSE IF 2 * q.r = b THEN "half" ELSE "low")

\* limbs * c + carry for a small integer c, limb by limb from the last
RECURSIVE timesLimbs(_, _, _)
timesLimbs(limbs, c, carry) ==
  IF limbs = << >> THEN limbsOfNat(carry)
  ELSE Append(timesLimbs(SubSeq(limbs, 1, Len(limbs) - 1), c,
                         (limbs[Len(limbs)] * c + carry) \div Base),
              (limbs[Len(limbs)] * c + carry) % Base)

\* x * c for a double x and a small integer c > 0
times(x, c) ==
  IF x.limbs = << >> THEN x ELSE rounded(timesLimbs(x.limbs, c, 0), x.exp)

\* the integer nearest to limbs * 2^exp, the larger one of two, for exp < 0
nearestInteger(limbs, exp) ==
  IF limbs = << >> THEN 0
  ELSE natOfLimbs(dropBits(limbs, 0 - exp)) + bitAt(limbs, (0 - exp) - 1)

\* Math.round
MathRound(x) == nearestInteger(x.limbs, x.exp)

Digits == << "0", "1", "2", "3", "4", "5", "6", "7", "8", "9" >>

RECURSIVE digitsOf(_)
digitsOf(n) == IF n < 10 THEN << Digits[n + 1] >> ELSE Append(digitsOf(n \div 10), Digits[(n % 10) + 1])

\* toFixed(1) cutting the digits after the first instead of rounding
toFixed1Truncating(x) ==
  LET n == IF x.limbs = << >> THEN 0
           ELSE natOfLimbs(dropBits(timesLimbs(x.limbs, 10, 0), 0 - x.exp))
  IN digitsOf(n \div 10) \o << ".", Digits[(n % 10) + 1] >>

\* Number.prototype.toFixed(1): the integer n nearest to 10 * x (the larger of two),
\* written with a point before its last digit.  A string is the sequence of its characters.
toFixed1(x) ==
  LET n == nearestInteger(timesLimbs(x.limbs, 10, 0), x.exp)
  IN digitsOf(n \div 10) \o << ".", Digits[(n % 10) + 1] >>

(* --------------------------- tool usage -------------------------------- *)
InsertToolUsages ==
  [toolName : ToolNames, category : Categories, processingTime : ProcessingTimes,
   success : BOOLEAN]

\* the record createToolUsage builds: { id, ...usage, timestamp: new Date() }
newToolUsage(id, usage, t) ==
  [key |-> id, id |-> id, toolName |-> usage.toolName, category |-> usage.category,
   processingTime |-> usage.processingTime, success |-> usage.success, timestamp |-> t]

\* if (usage.processingTime): a missing value and 0 are falsy
truthy(processingTime) == processingTime # absent /\ processingTime # 0

\* the statistics of a tool before its first event
noStat(usage) ==
  [key |-> usage.toolName, name |-> usage.toolName, category |-> usage.category,
   usageCount |-> 0, successCount |-> 0, totalProcessingTime |-> 0]

\* one turn of usages.forEach
addUsage(map, usage) ==
  LET existing == IF HasKey(map, usage.toolName) THEN MapGet(map, usage.toolName)
                  ELSE noStat(usage)
  IN MapSet(map, usage.toolName,
       [existing EXCEPT
          !.usageCount = @ + 1,
          !.successCount = IF usage.success THEN @ + 1 ELSE @,
          !.totalProcessingTime = IF truthy(usage.processingTime)
                                  THEN @ + usage.processingTime ELSE @])

\* a merge that keeps a second entry for a tool that has one
mergeStatsAppending(first, second) == first \o second

\* the map that the turns of forEach which made the map "first", followed by the turns
\* which made the map "second", make: the counts add up, a tool keeps the category and
\* the place of its first event
mergeStats(first, second) ==
  [i \in DOMAIN first |->
     IF HasKey(second, first[i].key)
     THEN [first[i] EXCEPT
             !.usageCount = @ + MapGet(second, first[i].key).usageCount,
             !.successCount = @ + MapGet(second, first[i].key).successCount,
             !.totalProcessingTime = @ + MapGet(second, first[i].key).totalProcessingTime]
     ELSE first[i]]
    \o SelectSeq(second, LAMBDA stat : ~HasKey(first, stat.key))

\* the map the turns of usages.forEach for the events from the one at lo to the one at hi
\* make of an empty map: the turns of the first half of the range, then those of the second
RECURSIVE forEach(_, _, _)
forEach(usages, lo, hi) ==
  IF lo > hi THEN << >>
  ELSE IF lo = hi THEN addUsage(<< >>, usages[lo])
  ELSE mergeStats(forEach(usages, lo, (lo + hi) \div 2),
                  forEach(usages, ((lo + hi) \div 2) + 1, hi))

\* toolStatsMap after usages.forEach
toolStatsMap(usages) == forEach(usages, 1, Len(usages))

\* the entry of toolStats made of an entry of toolStatsMap
toolStat(stat) ==
  [name |-> stat.name, category |-> stat.category, usageCount |-> stat.usageCount,
   successRate |-> IF stat.usageCount > 0
                   THEN MathRound(times(divide(stat.successCount, stat.usageCount), 100))
                   ELSE 0,
   avgProcessingTime |-> IF stat.usageCount > 0
                         THEN MathRound(divide(stat.totalProcessingTime, stat.usageCount))
                         ELSE 0]

\* a descending sort that puts an entry before the entries with the same usageCount
RECURSIVE sortByUsageUnstable(_)
sortByUsageUnstable(stats) ==
  IF stats = << >> THEN << >>
  ELSE LET sorted == sortByUsageUnstable(SubSeq(stats, 1, Len(stats) - 1))
           last == stats[Len(stats)]
           k == Cardinality({i \in DOMAIN sorted : sorted[i].usageCount > last.usageCount})
       IN SubSeq(sorted, 1, k) \o << last >> \o SubSeq(sorted, k + 1, Len(sorted))

\* Array.prototype.sort with (a, b) => b.usageCount - a.usageCount: descending, and
\* stable, so an entry goes behind the entries that are not smaller
RECURSIVE sortByUsage(_)
sortByUsage(stats) ==
  IF stats = << >> THEN << >>
  ELSE LET sorted == sortByUsage(SubSeq(stats, 1, Len(stats) - 1))
           last == stats[Len(stats)]
           k == Cardinality({i \in DOMAIN sorted : sorted[i].usageCount >= last.usageCount})
       IN SubSeq(sorted, 1, k) \o << last >> \o SubSeq(sorted, k + 1, Len(sorted))

\* the zero state with the rate formatted as toFixed(1) formats a rate
emptyAnalyticsFormatted ==
  [totalUsage |-> 0, mostPopular |-> "No data", popularUsage |-> 0,
   successRate |-> << "0", ".", "0", "%" >>, toolStats |-> << >>]

\* what getAnalytics returns when there is no event
emptyAnalytics ==
  [totalUsage |-> 0, mostPopular |-> "No data", popularUsage |-> 0,
   successRate |-> << "0", "%" >>, toolStats |-> << >>]

\* Array.from(toolStatsMap.values()).map(...)
mapStats(stats) == [i \in DOMAIN stats |-> toolStat(stats[i])]

\* what getAnalytics returns when there are events
analytics(totalUsage, successfulUsages, toolStats) ==
  [totalUsage |-> totalUsage,
   mostPopular |-> IF toolStats # << >> THEN toolStats[1].name ELSE "No data",
   popularUsage |-> IF toolStats # << >> THEN toolStats[1].usageCount ELSE 0,
   successRate |-> IF totalUsage > 0
                   THEN toFixed1(times(divide(successfulUsages, totalUsage), 100)) \o << "%" >>
                   ELSE << "0", "%" >>,
   toolStats |-> toolStats]

\* getAnalytics answering with the result it computed before the latest event was stored
getAnalyticsCached(usages) ==
  IF Len(usages) <= 1 THEN emptyAnalytics
  ELSE analytics(Len(usages) - 1,
                 Cardinality({i \in 1..(Len(usages) - 1) : usages[i].success}),
                 sortByUsage(mapStats(forEach(usages, 1, Len(usages) - 1))))

getAnalytics(usages) ==
  IF Len(usages) = 0 THEN emptyAnalytics
  ELSE analytics(Len(usages), Cardinality({i \in DOMAIN usages : usages[i].success}),
                 sortByUsage(mapStats(toolStatsMap(usages))))

(* ------------------------------ state ---------------------------------- *)
\* randomUUID handing out the identifier it handed out last
randomUUIDAgain(c) == IF nextId[c] > 1 THEN nextId[c] - 1 ELSE nextId[c]

\* randomUUID: an identifier never handed out before in the collection
randomUUID(c) == nextId[c]

drawn(c) == [nextId EXCEPT ![c] = nextId[c] + 1]

\* the constructor has run: the administrator's id is drawn and its hash is being
\* computed, the first default slot is stored and the loop waits on its await
Init ==
  /\ users = << >>
  /\ toolUsages = << >>
  /\ adSlots = << newAdSlot(1, defaultSlots[1], 0) >>
  /\ nextId = [users |-> 2, toolUsages |-> 1, adSlots |-> 2]
  /\ now = 0
  /\ adminPc = "hashing"
  /\ slotPc = 2
  /\ pending = {}
  /\ resp = [op |-> "none"]

\* the microtasks of the constructor have run: requests can be handled
Serving == slotPc > Len(defaultSlots)

(* ----------------------------- bootstrap ------------------------------- *)
\* one turn of the loop of initializeDefaultAdSlots creating the slot of the turn before
InitializeDefaultAdSlotAgain ==
  /\ slotPc <= Len(defaultSlots)
  /\ adSlots' = MapSet(adSlots, randomUUID("adSlots"),
                       newAdSlot(randomUUID("adSlots"), defaultSlots[slotPc - 1], now))
  /\ nextId' = drawn("adSlots")
  /\ slotPc' = slotPc + 1
  /\ resp' = [op |-> "initializeDefaultAdSlots"]
  /\ UNCHANGED <<users, toolUsages, now, adminPc, pending>>

\* one turn of the loop of initializeDefaultAdSlots
InitializeDefaultAdSlot ==
  /\ slotPc <= Len(defaultSlots)
  /\ adSlots' = MapSet(adSlots, randomUUID("adSlots"),
                       newAdSlot(randomUUID("adSlots"), defaultSlots[slotPc], now))
  /\ nextId' = drawn("adSlots")
  /\ slotPc' = slotPc + 1
  /\ resp' = [op |-> "initializeDefaultAdSlots"]
  /\ UNCHANGED <<users, toolUsages, now, adminPc, pending>>

\* initializeAdminUser after its await: the hash is there, the record is stored
InitializeAdminUser ==
  /\ adminPc = "hashing"
  /\ users' = MapSet(users, 1,
                [key |-> 1, id |-> 1, username |-> AdminName, email |-> AdminEmail,
                 password |-> BcryptHash(AdminPassword), role |-> "admin",
                 createdAt |-> now, updatedAt |-> now])
  /\ adminPc' = "done"
  /\ resp' = [op |-> "initializeAdminUser"]
  /\ UNCHANGED <<toolUsages, adSlots, nextId, now, slotPc, pending>>

\* the clock advances
Tick ==
  /\ now < MaxTime
  /\ now' = now + 1
  /\ UNCHANGED <<users, toolUsages, adSlots, nextId, adminPc, slotPc, pending, resp>>

(* --------------------------- user operations --------------------------- *)
\* what a call of createUser found in the collection when it was made (kept for the
\* properties only: the code does not look)
found(us, insertUser) ==
  [email |-> getUserByEmail(us, insertUser.email) # undefined,
   username |-> getUserByUsername(us, insertUser.username) # undefined]

\* createUser up to its await: the id is drawn, bcrypt.hash is started
createUserCall(insertUser, route) ==
  /\ Cardinality(pending) < MaxPending
  /\ pending' = pending \cup {[id |-> randomUUID("users"), insertUser |-> insertUser,
                               route |-> route, found |-> found(users, insertUser)]}
  /\ nextId' = drawn("users")

CreateUser(insertUser) ==
  /\ Serving
  /\ createUserCall(insertUser, FALSE)
  /\ UNCHANGED <<users, toolUsages, adSlots, now, adminPc, slotPc, resp>>

\* createUser after its await: the record is built and stored, the caller resumes
\* (the register route answers with the user without its password)
CreateUserDone(p) ==
  /\ users' = MapSet(users, p.id, newUser(p.id, p.insertUser, BcryptHash(p.insertUser.password), now))
  /\ resp' = IF p.route
             THEN [op |-> "register", status |-> 200, found |-> p.found,
                   user |-> withoutPassword(MapGet(users', p.id))]
             ELSE [op |-> "createUser", found |-> p.found, result |-> MapGet(users', p.id)]
  /\ pending' = pending \ {p}
  /\ UNCHANGED <<toolUsages, adSlots, nextId, now, adminPc, slotPc>>

\* POST /api/auth/register
Register(body) ==
  /\ Serving
  /\ IF body = malformed
     THEN /\ resp' = [op |-> "register", status |-> 400]
          /\ UNCHANGED <<nextId, pending>>
     ELSE IF getUserByEmail(users, body.email) # undefined
     THEN /\ resp' = [op |-> "register", status |-> 409]
          /\ UNCHANGED <<nextId, pending>>
     ELSE /\ createUserCall([username |-> body.username, email |-> body.email,
                             password |-> body.password, role |-> ""], TRUE)
          /\ UNCHANGED resp
  /\ UNCHANGED <<users, toolUsages, adSlots, now, adminPc, slotPc>>

UpdateUser(id, updates) ==
  /\ Serving
  /\ users' = updateUser(users, id, updates, now).users
  /\ resp' = [op |-> "updateUser", id |-> id,
              result |-> updateUser(users, id, updates, now).result]
  /\ UNCHANGED <<toolUsages, adSlots, nextId, now, adminPc, slotPc, pending>>

\* PATCH /api/auth/profile; userId 0 stands for a request without the user-id header
ProfileUpdate(userId, body) ==
  /\ Serving
  /\ IF body = malformed
     THEN /\ resp' = [op |-> "profile", status |-> 400]
          /\ UNCHANGED users
     ELSE IF userId = 0
     THEN /\ resp' = [op |-> "profile", status |-> 401]
          /\ UNCHANGED users
     ELSE LET r == updateUser(users, userId, profileFields(body), now)
          IN /\ users' = r.users
             /\ resp' = IF r.result = undefined
                        THEN [op |-> "profile", status |-> 404]
                        ELSE [op |-> "profile", status |-> 200,
                              user |-> withoutPassword(r.result)]
  /\ UNCHANGED <<toolUsages, adSlots, nextId, now, adminPc, slotPc, pending>>

\* authenticateUser telling an unknown email from a wrong password
authenticateUserTelling(us, email, password) ==
  IF getUserByEmail(us, email) = undefined THEN [unknownEmail |-> TRUE]
  ELSE IF BcryptCompare(password, getUserByEmail(us, email).password)
  THEN getUserByEmail(us, email)
  ELSE undefined

\* authenticateUser.  The collection is read once, before the await on bcrypt.compare,
\* and the value returned is decided by that read: the call is one step.
authenticateUser(us, email, password) ==
  IF getUserByEmail(us, email) = undefined THEN undefined
  ELSE IF BcryptCompare(password, getUserByEmail(us, email).password)
  THEN getUserByEmail(us, email)
  ELSE undefined

AuthenticateUser(email, password) ==
  /\ Serving
  /\ resp' = [op |-> "authenticateUser", email |-> email, password |-> password,
              result |-> authenticateUser(users, email, password)]
  /\ UNCHANGED <<users, toolUsages, adSlots, nextId, now, adminPc, slotPc, pending>>

LoginBodies == {malformed} \cup [email : Emails, password : Passwords]

\* POST /api/auth/login
Login(body) ==
  /\ Serving
  /\ resp' = IF body = malformed
             THEN [op |-> "login", status |-> 400, message |-> "Invalid login data"]
             ELSE IF authenticateUser(users, body.email, body.password) = undefined
             THEN [op |-> "login", status |-> 401, message |-> "Invalid credentials",
                   email |-> body.email, password |-> body.password]
             ELSE [op |-> "login", status |-> 200,
                   user |-> withoutPassword(authenticateUser(users, body.email, body.password))]
  /\ UNCHANGED <<users, toolUsages, adSlots, nextId, now, adminPc, slotPc, pending>>

Bootstrap == InitializeDefaultAdSlot \/ InitializeAdminUser

NextUsers ==
  \/ Bootstrap
  \/ \E insertUser \in InsertUsers : CreateUser(insertUser) /\ nextId'.users <= MaxUsers + 1
  \/ \E p \in pending : CreateUserDone(p)
  \/ \E body \in RegisterBodies : Register(body) /\ nextId'.users <= MaxUsers + 1
  \/ \E id \in Ids, updates \in Updates : UpdateUser(id, updates)
  \/ \E userId \in {0} \cup Ids, body \in ProfileBodies : ProfileUpdate(userId, body)
  \/ \E email \in Emails, password \in Passwords : AuthenticateUser(email, password)
  \/ \E body \in LoginBodies : Login(body)

SpecUsers == Init /\ [][NextUsers]_vars

(* ------------------------ tool-usage operations ------------------------ *)
\* createToolUsage keeping the latest event only
CreateToolUsageLatest(usage) ==
  /\ Serving
  /\ toolUsages' = << newToolUsage(randomUUID("toolUsages"), usage, now) >>
  /\ nextId' = drawn("toolUsages")
  /\ resp' = [op |-> "createToolUsage", result |-> MapGet(toolUsages', randomUUID("toolUsages"))]
  /\ UNCHANGED <<users, adSlots, now, adminPc, slotPc, pending>>

CreateToolUsage(usage) ==
  /\ Serving
  /\ toolUsages' = MapSet(toolUsages, randomUUID("toolUsages"),
                          newToolUsage(randomUUID("toolUsages"), usage, now))
  /\ nextId' = drawn("toolUsages")
  /\ resp' = [op |-> "createToolUsage", result |-> MapGet(toolUsages', randomUUID("toolUsages"))]
  /\ UNCHANGED <<users, adSlots, now, adminPc, slotPc, pending>>

\* getAnalytics emptying the log it has reported on
GetAnalyticsAndReset ==
  /\ Serving
  /\ resp' = [op |-> "getAnalytics", result |-> getAnalytics(toolUsages)]
  /\ toolUsages' = << >>
  /\ UNCHANGED <<users, adSlots, nextId, now, adminPc, slotPc, pending>>

GetAnalytics ==
  /\ Serving
  /\ resp' = [op |-> "getAnalytics", result |-> getAnalytics(toolUsages)]
  /\ UNCHANGED <<users, toolUsages, adSlots, nextId, now, adminPc, slotPc, pending>>

NextUsage ==
  \/ Bootstrap
  \/ Tick
  \/ \E usage \in InsertToolUsages : Len(toolUsages) < MaxUsages /\ CreateToolUsage(usage)
  \/ GetAnalytics

SpecUsage == Init /\ [][NextUsage]_vars

(* ------------------- a long log of the events of one tool -------------- *)
\* n events of one tool, the first s of them successful and timed
oneToolLog(n, s) ==
  [i \in 1..n |->
     newToolUsage(i, [toolName |-> "pdf-to-word", category |-> "pdf",
                      processingTime |-> IF i <= s THEN 100 ELSE absent,
                      success |-> i <= s], 0)]

\* the store after bootstrap and n calls of createToolUsage
InitAnalytics ==
  /\ users = << [key |-> 1, id |-> 1, username |-> AdminName, email |-> AdminEmail,
                 password |-> BcryptHash(AdminPassword), role |-> "admin",
                 createdAt |-> 0, updatedAt |-> 0] >>
  /\ adSlots = [i \in DOMAIN defaultSlots |-> newAdSlot(i, defaultSlots[i], 0)]
  /\ \E n \in 0..MaxBase, s \in 0..MaxBase :
       /\ s <= n
       /\ toolUsages = oneToolLog(n, s)
       /\ nextId = [users |-> 2, toolUsages |-> n + 1, adSlots |-> Len(defaultSlots) + 1]
  /\ now = 0
  /\ adminPc = "done"
  /\ slotPc = Len(defaultSlots) + 1
  /\ pending = {}
  /\ resp = [op |-> "none"]

FailedUsages == {[toolName |-> "pdf-to-word", category |-> "pdf",
                  processingTime |-> absent, success |-> FALSE]}

NextAnalytics ==
  \/ \E usage \in FailedUsages : Len(toolUsages) < MaxBase /\ CreateToolUsage(usage)
  \/ GetAnalytics

SpecAnalytics == InitAnalytics /\ [][NextAnalytics]_vars

(* ----------------------------- getToolUsage ---------------------------- *)
\* the fields of the filters of getToolUsage
FilterFields == {"toolName", "category", "dateFrom", "dateTo"}

\* a filters object names some of the fields; a string may be empty, and a Date is a
\* clock value
Filters ==
  {[f \in D |-> full[f]] :
     full \in [toolName : {"", "pdf-to-word"}, category : {"", "pdf"},
               dateFrom : 0..MaxTime, dateTo : 0..MaxTime],
     D \in SUBSET FilterFields}

\* if (filters.toolName), if (filters.category): a missing string and "" are falsy
truthyString(filters, f) == f \in DOMAIN filters /\ filters[f] # ""

\* if (filters.dateFrom), if (filters.dateTo): a Date is an object, truthy whatever its time
truthyDate(filters, f) == f \in DOMAIN filters

\* the four filter steps of getToolUsage; filters is undefined when the argument is left out
filtered(usages, filters) ==
  IF filters = undefined THEN usages
  ELSE SelectSeq(usages, LAMBDA usage :
         /\ truthyString(filters, "toolName") => usage.toolName = filters.toolName
         /\ truthyString(filters, "category") => usage.category = filters.category
         /\ truthyDate(filters, "dateFrom") => usage.timestamp >= filters.dateFrom
         /\ truthyDate(filters, "dateTo") => usage.timestamp <= filters.dateTo)

\* Array.prototype.sort with (a, b) => b.timestamp.getTime() - a.timestamp.getTime():
\* descending and stable
RECURSIVE sortByTimestamp(_)
sortByTimestamp(usages) ==
  IF usages = << >> THEN << >>
  ELSE LET sorted == sortByTimestamp(SubSeq(usages, 1, Len(usages) - 1))
           last == usages[Len(usages)]
           k == Cardinality({i \in DOMAIN sorted : sorted[i].timestamp >= last.timestamp})
       IN SubSeq(sorted, 1, k) \o << last >> \o SubSeq(sorted, k + 1, Len(sorted))

getToolUsage(usages, filters) == sortByTimestamp(filtered(usages, filters))

GetToolUsage(filters) ==
  /\ Serving
  /\ resp' = [op |-> "getToolUsage", filters |-> filters,
              result |-> getToolUsage(toolUsages, filters)]
  /\ UNCHANGED <<users, toolUsages, adSlots, nextId, now, adminPc, slotPc, pending>>

\* the events recorded where the filters are exercised: tool and category vary
FilteredUsages ==
  [toolName : ToolNames, category : {"pdf", "image"}, processingTime : {absent},
   success : {TRUE}]

NextToolUsage ==
  \/ Bootstrap
  \/ Tick
  \/ \E usage \in FilteredUsages : Len(toolUsages) < MaxUsages /\ CreateToolUsage(usage)
  \/ \E filters \in {undefined} \cup Filters : GetToolUsage(filters)

SpecToolUsage == Init /\ [][NextToolUsage]_vars

(* --------------------------- ad-slot operations ------------------------ *)
Pages == {"home", "pdf-tools"}

InsertAdSlots ==
  [name : {"Sidebar"}, position : {"sidebar"}, page : Pages, isActive : BOOLEAN]

\* identifiers of ad slots a caller may name: those handed out, and one that never is
SlotIds == 1..(MaxSlots + 1)

\* Partial<AdSlot> objects a caller may pass to updateAdSlot
SlotUpdates ==
  {noUpdates} \cup {[isActive |-> b] : b \in BOOLEAN} \cup {[page |-> p] : p \in Pages}

\* the value of the user-role header of a request
UserRoles == {"admin", "user"}

\* Map.delete: the map without the entry of the key
MapDelete(m, k) == SelectSeq(m, LAMBDA e : e.key # k)

getAdSlots(slots) == slots

\* getActiveAdSlots returning the slots of the page whatever their isActive
getActiveAdSlotsOfPage(slots, page) == SelectSeq(slots, LAMBDA slot : slot.page = page)

getActiveAdSlots(slots, page) ==
  SelectSeq(slots, LAMBDA slot : slot.page = page /\ slot.isActive)

\* { ...adSlot, ...updates }
mergeAdSlot(adSlot, updates) ==
  [f \in DOMAIN adSlot |-> IF f \in DOMAIN updates THEN updates[f] ELSE adSlot[f]]

\* updateAdSlot: the collection and the value returned
updateAdSlot(slots, id, updates) ==
  IF ~HasKey(slots, id)
  THEN [adSlots |-> slots, result |-> undefined]
  ELSE [adSlots |-> MapSet(slots, id, mergeAdSlot(MapGet(slots, id), updates)),
        result |-> mergeAdSlot(MapGet(slots, id), updates)]

\* deleteAdSlot answering true whether or not the key was there
deleteAdSlotAlways(slots, id) ==
  [adSlots |-> MapDelete(slots, id), result |-> TRUE]

\* deleteAdSlot: the collection, and what Map.delete returns (was the key there)
deleteAdSlot(slots, id) ==
  [adSlots |-> MapDelete(slots, id), result |-> HasKey(slots, id)]

CreateAdSlot(adSlot) ==
  /\ Serving
  /\ nextId.adSlots <= MaxSlots
  /\ adSlots' = MapSet(adSlots, randomUUID("adSlots"),
                       newAdSlot(randomUUID("adSlots"), adSlot, now))
  /\ nextId' = drawn("adSlots")
  /\ resp' = [op |-> "createAdSlot", result |-> MapGet(adSlots', randomUUID("adSlots"))]
  /\ UNCHANGED <<users, toolUsages, now, adminPc, slotPc, pending>>

UpdateAdSlot(id, updates) ==
  /\ Serving
  /\ adSlots' = updateAdSlot(adSlots, id, updates).adSlots
  /\ resp' = [op |-> "updateAdSlot", id |-> id,
              result |-> updateAdSlot(adSlots, id, updates).result]
  /\ UNCHANGED <<users, toolUsages, nextId, now, adminPc, slotPc, pending>>

DeleteAdSlot(id) ==
  /\ Serving
  /\ adSlots' = deleteAdSlot(adSlots, id).adSlots
  /\ resp' = [op |-> "deleteAdSlot", id |-> id, result |-> deleteAdSlot(adSlots, id).result]
  /\ UNCHANGED <<users, toolUsages, nextId, now, adminPc, slotPc, pending>>

\* a DELETE route without the test of the user-role header
DeleteAdSlotRouteOpen(userRole, id) ==
  /\ Serving
  /\ adSlots' = deleteAdSlot(adSlots, id).adSlots
  /\ resp' = [op |-> "DELETE ad-slots", id |-> id,
              status |-> IF deleteAdSlot(adSlots, id).result THEN 200 ELSE 404]
  /\ UNCHANGED <<users, toolUsages, nextId, now, adminPc, slotPc, pending>>

\* DELETE /api/admin/ad-slots/:id
DeleteAdSlotRoute(userRole, id) ==
  /\ Serving
  /\ IF userRole # "admin"
     THEN /\ resp' = [op |-> "DELETE ad-slots", id |-> id, status |-> 403]
          /\ UNCHANGED adSlots
     ELSE /\ adSlots' = deleteAdSlot(adSlots, id).adSlots
          /\ resp' = [op |-> "DELETE ad-slots", id |-> id,
                      status |-> IF deleteAdSlot(adSlots, id).result THEN 200 ELSE 404]
  /\ UNCHANGED <<users, toolUsages, nextId, now, adminPc, slotPc, pending>>

GetAdSlots ==
  /\ Serving
  /\ resp' = [op |-> "getAdSlots", result |-> getAdSlots(adSlots)]
  /\ UNCHANGED <<users, toolUsages, adSlots, nextId, now, adminPc, slotPc, pending>>

GetActiveAdSlots(page) ==
  /\ Serving
  /\ resp' = [op |-> "getActiveAdSlots", page |-> page,
              result |-> getActiveAdSlots(adSlots, page)]
  /\ UNCHANGED <<users, toolUsages, adSlots, nextId, now, adminPc, slotPc, pending>>

\* GET /api/ad-slots/:page
ActiveAdSlotsRoute(page) ==
  /\ Serving
  /\ resp' = [op |-> "GET ad-slots", page |-> page, status |-> 200,
              body |-> getActiveAdSlots(adSlots, page)]
  /\ UNCHANGED <<users, toolUsages, adSlots, nextId, now, adminPc, slotPc, pending>>

NextAdSlots ==
  \/ Bootstrap
  \/ \E adSlot \in InsertAdSlots : CreateAdSlot(adSlot)
  \/ \E id \in SlotIds, updates \in SlotUpdates : UpdateAdSlot(id, updates)
  \/ \E id \in SlotIds : DeleteAdSlot(id)
  \/ \E userRole \in UserRoles, id \in SlotIds : DeleteAdSlotRoute(userRole, id)
  \/ GetAdSlots
  \/ \E page \in Pages \cup {"universal-tool"} : GetActiveAdSlots(page)
  \/ \E page \in Pages \cup {"universal-tool"} : ActiveAdSlotsRoute(page)

SpecAdSlots == Init /\ [][NextAdSlots]_vars

(* ------------------------------- sitemap ------------------------------- *)
baseUrl == "https://toolsuitepro.com"

\* new Date().toISOString().split('T')[0]: the day of a clock value, one day a tick
currentDate(t) == << "2024-01-01", "2024-01-02", "2024-01-03" >>[t + 1]

pages ==
  << [url |-> "", priority |-> "1.0", changefreq |-> "weekly"],
     [url |-> "/pdf-tools", priority |-> "0.9", changefreq |-> "weekly"],
     [url |-> "/image-tools", priority |-> "0.9", changefreq |-> "weekly"],
     [url |-> "/audio-tools", priority |-> "0.9", changefreq |-> "weekly"],
     [url |-> "/text-tools", priority |-> "0.9", changefreq |-> "weekly"],
     [url |-> "/productivity-tools", priority |-> "0.9", changefreq |-> "weekly"],
     [url |-> "/about", priority |-> "0.7", changefreq |-> "monthly"],
     [url |-> "/contact", priority |-> "0.7", changefreq |-> "monthly"],
     [url |-> "/privacy-policy", priority |-> "0.5", changefreq |-> "yearly"],
     [url |-> "/terms-of-service", priority |-> "0.5", changefreq |-> "yearly"] >>

toolPages ==
  << "/tools/pdf-to-word", "/tools/merge-pdf", "/tools/compress-pdf",
     "/tools/image-compressor", "/tools/background-remover", "/tools/image-resizer",
     "/tools/audio-converter", "/tools/audio-compressor", "/tools/word-counter",
     "/tools/grammar-checker", "/tools/calculator", "/tools/qr-generator" >>

\* toolPages.forEach(tool => pages.push(...)) leaving out the last tool page
pushedButLast(list, tools) ==
  list \o [i \in 1..(Len(tools) - 1) |->
             [url |-> tools[i], priority |-> "0.8", changefreq |-> "monthly"]]

\* toolPages.forEach(tool => pages.push({ url: tool, priority: "0.8", changefreq: "monthly" }))
pushed(list, tools) ==
  list \o [i \in DOMAIN tools |->
             [url |-> tools[i], priority |-> "0.8", changefreq |-> "monthly"]]

\* one <url> element: the text of its four children
urlEntry(page, t) ==
  [loc |-> baseUrl \o page.url, lastmod |-> currentDate(t),
   changefreq |-> page.changefreq, priority |-> page.priority]

\* the document generateSitemap returns: its XML declaration, the namespace of its
\* urlset, and the url elements in their order
generateSitemap(t) ==
  [declaration |-> "<?xml version=\"1.0\" encoding=\"UTF-8\"?>",
   xmlns |-> "http://www.sitemaps.org/schemas/sitemap/0.9",
   urlset |-> [i \in DOMAIN pushed(pages, toolPages) |-> urlEntry(pushed(pages, toolPages)[i], t)]]

GenerateSitemap ==
  /\ Serving
  /\ resp' = [op |-> "generateSitemap", result |-> generateSitemap(now)]
  /\ UNCHANGED <<users, toolUsages, adSlots, nextId, now, adminPc, slotPc, pending>>

NextSitemap ==
  \/ Bootstrap
  \/ Tick
  \/ \E usage \in FailedUsages : Len(toolUsages) < MaxUsages /\ CreateToolUsage(usage)
  \/ \E adSlot \in InsertAdSlots : CreateAdSlot(adSlot)
  \/ GenerateSitemap

SpecSitemap == Init /\ [][NextSitemap]_vars

(* ------------------- creates in the three collections ------------------ *)
\* the users created where calls overlap: one email, one password
RacedUsers == [username : Usernames, email : {"bob@example.com"}, password : {"hunter2"}]

NextCreates ==
  \/ Bootstrap
  \/ \E body \in RacedUsers :
       CreateUser([username |-> body.username, email |-> body.email,
                   password |-> body.password, role |-> ""]) /\ nextId'.users <= MaxRaced + 1
  \/ \E p \in pending : CreateUserDone(p)
  \/ \E usage \in FailedUsages : Len(toolUsages) < MaxUsages /\ CreateToolUsage(usage)
  \/ \E adSlot \in InsertAdSlots : CreateAdSlot(adSlot)

SpecCreates == Init /\ [][NextCreates]_vars

(* ------------------------ overlapping register requests ---------------- *)
NextRegister ==
  \/ Bootstrap
  \/ \E body \in {malformed} \cup RacedUsers :
       Register(body) /\ nextId'.users <= MaxRaced + 1
  \/ \E p \in pending : CreateUserDone(p)
  \/ \E body \in LoginBodies : Login(body)

SpecRegister == Init /\ [][NextRegister]_vars

(* ------------------------- updates of user records --------------------- *)
\* Partial<User> objects that name updatedAt too
StampedUpdates == Updates \cup {[updatedAt |-> 0], [email |-> AdminEmail, updatedAt |-> 0]}

NextUpdates ==
  \/ Bootstrap
  \/ Tick
  \/ \E body \in RacedUsers :
       CreateUser([username |-> body.username, email |-> body.email,
                   password |-> body.password, role |-> ""]) /\ nextId'.users <= MaxUsers + 1
  \/ \E p \in pending : CreateUserDone(p)
  \/ \E id \in Ids, updates \in StampedUpdates : UpdateUser(id, updates)

SpecUpdates == Init /\ [][NextUpdates]_vars

(* ------------------------------ user lookups --------------------------- *)
GetUser(id) ==
  /\ Serving
  /\ resp' = [op |-> "getUser", result |-> getUser(users, id)]
  /\ UNCHANGED <<users, toolUsages, adSlots, nextId, now, adminPc, slotPc, pending>>

GetUserByEmail(email) ==
  /\ Serving
  /\ resp' = [op |-> "getUserByEmail", result |-> getUserByEmail(users, email)]
  /\ UNCHANGED <<users, toolUsages, adSlots, nextId, now, adminPc, slotPc, pending>>

GetUserByUsername(username) ==
  /\ Serving
  /\ resp' = [op |-> "getUserByUsername", result |-> getUserByUsername(users, username)]
  /\ UNCHANGED <<users, toolUsages, adSlots, nextId, now, adminPc, slotPc, pending>>

(* ---------------------- every operation of the store ------------------- *)
\* one user, one ad slot and one kind of event are created, so that the three
\* collections vary together
StoreUsers == {[username |-> "bob", email |-> "bob@example.com", password |-> "hunter2",
                role |-> ""]}

StoreAdSlots == {[name |-> "Sidebar", position |-> "sidebar", page |-> "home",
                  isActive |-> TRUE]}

NextStore ==
  \/ Bootstrap
  \/ \E insertUser \in StoreUsers : CreateUser(insertUser) /\ nextId'.users <= MaxUsers + 1
  \/ \E p \in pending : CreateUserDone(p)
  \/ \E id \in Ids : UpdateUser(id, [email |-> AdminEmail])
  \/ \E id \in Ids : GetUser(id)
  \/ \E email \in Emails : GetUserByEmail(email)
  \/ \E username \in Usernames : GetUserByUsername(username)
  \/ \E email \in Emails : AuthenticateUser(email, AdminPassword)
  \/ \E usage \in FailedUsages : Len(toolUsages) < MaxUsages /\ CreateToolUsage(usage)
  \/ GetToolUsage(undefined)
  \/ GetAnalytics
  \/ \E adSlot \in StoreAdSlots : CreateAdSlot(adSlot)
  \/ \E id \in SlotIds : UpdateAdSlot(id, [isActive |-> FALSE])
  \/ \E id \in SlotIds : DeleteAdSlot(id)
  \/ GetAdSlots
  \/ GetActiveAdSlots("home")
  \/ GenerateSitemap

SpecStore == Init /\ [][NextStore]_vars

(* -------------------- records in the hands of a caller ----------------- *)
(* The get methods and the creates return the objects that the maps hold,  *)
(* not copies (return this.users.get(id); Array.from(this.adSlots.values()) *)
(* is a new array of the same objects; createUser returns the object it has *)
(* just stored).  An assignment to a field of a returned object is then an  *)
(* assignment to the stored object.  The last response is such an object    *)
(* (or a list of such objects) until an operation stores another object     *)
(* under the key, and every such operation gives a response of its own.     *)
\* a caller assigns to a field of the user that the last operation returned
ModifyReturnedUser(field, value) ==
  /\ Serving
  /\ resp.op \in {"getUser", "getUserByEmail", "getUserByUsername", "authenticateUser",
                  "createUser"}
  /\ resp.result # undefined
  /\ users' = MapSet(users, resp.result.key, [resp.result EXCEPT ![field] = value])
  /\ resp' = [op |-> "modifyReturned", collection |-> "users", key |-> resp.result.key,
              field |-> field]
  /\ UNCHANGED <<toolUsages, adSlots, nextId, now, adminPc, slotPc, pending>>

\* a caller assigns to a field of a slot of the list that getAdSlots or createAdSlot returned
ModifyReturnedAdSlot(i, field, value) ==
  /\ Serving
  /\ resp.op \in {"getAdSlots", "createAdSlot"}
  /\ LET returned == IF resp.op = "getAdSlots" THEN resp.result ELSE << resp.result >>
     IN /\ i \in DOMAIN returned
        /\ adSlots' = MapSet(adSlots, returned[i].key, [returned[i] EXCEPT ![field] = value])
        /\ resp' = [op |-> "modifyReturned", collection |-> "adSlots",
                    key |-> returned[i].key, field |-> field]
  /\ UNCHANGED <<users, toolUsages, nextId, now, adminPc, slotPc, pending>>

\* a caller assigns to a field of an event of the list that getToolUsage returned
ModifyReturnedUsage(i, field, value) ==
  /\ Serving
  /\ resp.op = "getToolUsage"
  /\ i \in DOMAIN resp.result
  /\ toolUsages' = MapSet(toolUsages, resp.result[i].key, [resp.result[i] EXCEPT ![field] = value])
  /\ resp' = [op |-> "modifyReturned", collection |-> "toolUsages",
              key |-> resp.result[i].key, field |-> field]
  /\ UNCHANGED <<users, adSlots, nextId, now, adminPc, slotPc, pending>>

NextReturned ==
  \/ Bootstrap
  \/ \E insertUser \in StoreUsers : CreateUser(insertUser) /\ nextId'.users <= MaxUsers + 1
  \/ \E p \in pending : CreateUserDone(p)
  \/ \E id \in Ids : GetUser(id)
  \/ \E email \in Emails : GetUserByEmail(email)
  \/ \E email \in Emails : AuthenticateUser(email, AdminPassword)
  \/ \E usage \in FailedUsages : Len(toolUsages) < MaxUsages /\ CreateToolUsage(usage)
  \/ GetToolUsage(undefined)
  \/ \E adSlot \in StoreAdSlots : CreateAdSlot(adSlot)
  \/ GetAdSlots
  \/ \E role \in {"user", "admin"} : ModifyReturnedUser("role", role)
  \/ \E i \in 1..MaxSlots, isActive \in BOOLEAN : ModifyReturnedAdSlot(i, "isActive", isActive)
  \/ \E i \in 1..MaxUsages, success \in BOOLEAN : ModifyReturnedUsage(i, "success", success)

SpecReturned == Init /\ [][NextReturned]_vars

(* ------------------------------ admin routes --------------------------- *)
\* the answer of an admin route to a request whose user-role header is not "admin"
forbidden(op) == [op |-> op, status |-> 403, message |-> "Admin access required"]

\* GET /api/admin/analytics
AnalyticsRoute(userRole) ==
  /\ Serving
  /\ resp' = IF userRole # "admin" THEN forbidden("GET analytics")
             ELSE [op |-> "GET analytics", status |-> 200, body |-> getAnalytics(toolUsages)]
  /\ UNCHANGED <<users, toolUsages, adSlots, nextId, now, adminPc, slotPc, pending>>

\* GET /api/admin/ad-slots
AdSlotsRoute(userRole) ==
  /\ Serving
  /\ resp' = IF userRole # "admin" THEN forbidden("GET admin ad-slots")
             ELSE [op |-> "GET admin ad-slots", status |-> 200, body |-> getAdSlots(adSlots)]
  /\ UNCHANGED <<users, toolUsages, adSlots, nextId, now, adminPc, slotPc, pending>>

\* POST /api/admin/ad-slots
CreateAdSlotRoute(userRole, body) ==
  /\ Serving
  /\ IF userRole # "admin"
     THEN /\ resp' = forbidden("POST ad-slots")
          /\ UNCHANGED <<adSlots, nextId>>
     ELSE IF body = malformed
     THEN /\ resp' = [op |-> "POST ad-slots", status |-> 400]
          /\ UNCHANGED <<adSlots, nextId>>
     ELSE /\ nextId.adSlots <= MaxSlots
          /\ adSlots' = MapSet(adSlots, randomUUID("adSlots"),
                               newAdSlot(randomUUID("adSlots"), body, now))
          /\ nextId' = drawn("adSlots")
          /\ resp' = [op |-> "POST ad-slots", status |-> 200,
                      body |-> MapGet(adSlots', randomUUID("adSlots"))]
  /\ UNCHANGED <<users, toolUsages, now, adminPc, slotPc, pending>>

\* PATCH /api/admin/ad-slots/:id: the request body goes to updateAdSlot as it is
UpdateAdSlotRoute(userRole, id, body) ==
  /\ Serving
  /\ IF userRole # "admin"
     THEN /\ resp' = forbidden("PATCH ad-slots")
          /\ UNCHANGED adSlots
     ELSE /\ adSlots' = updateAdSlot(adSlots, id, body).adSlots
          /\ resp' = IF updateAdSlot(adSlots, id, body).result = undefined
                     THEN [op |-> "PATCH ad-slots", status |-> 404]
                     ELSE [op |-> "PATCH ad-slots", status |-> 200,
                           body |-> updateAdSlot(adSlots, id, body).result]
  /\ UNCHANGED <<users, toolUsages, nextId, now, adminPc, slotPc, pending>>

(* ----------------- updates that name any field of a record ------------- *)
\* request bodies of the PATCH route: JSON objects naming fields of an ad slot
PatchBodies ==
  {noUpdates, [isActive |-> FALSE], [id |-> MaxSlots + 1], [createdAt |-> 1]}

\* Partial<User> objects naming id or createdAt
KeyedUpdates == {[email |-> "bob@example.com"], [id |-> MaxUsers + 1], [createdAt |-> 1]}

NextPatch ==
  \/ Bootstrap
  \/ \E id \in Ids, updates \in KeyedUpdates : UpdateUser(id, updates)
  \/ \E id \in SlotIds, updates \in PatchBodies : UpdateAdSlot(id, updates)
  \/ \E userRole \in UserRoles, id \in SlotIds, body \in PatchBodies :
       UpdateAdSlotRoute(userRole, id, body)

SpecPatch == Init /\ [][NextPatch]_vars

(* -------------------- requests that name a role ------------------------ *)
\* register bodies that carry a role
RoleBodies == [username : Usernames, email : Emails, password : {"hunter2"},
               role : {"user", "admin"}]

NextRequests ==
  \/ Bootstrap
  \/ \E body \in {malformed} \cup RoleBodies : Register(body) /\ nextId'.users <= MaxUsers + 1
  \/ \E p \in pending : CreateUserDone(p)
  \/ \E body \in LoginBodies : Login(body)
  \/ \E userId \in {0} \cup Ids, body \in ProfileBodies : ProfileUpdate(userId, body)

SpecRequests == Init /\ [][NextRequests]_vars

(* ------------------- requests to the admin routes ---------------------- *)
\* the user-role header of a request; "" stands for a request without the header
RoleHeaders == UserRoles \cup {""}

\* request bodies of the PATCH route that switch a slot off
AdminBodies == {[isActive |-> FALSE]}

NextAdmin ==
  \/ Bootstrap
  \/ \E userRole \in RoleHeaders : AnalyticsRoute(userRole)
  \/ \E userRole \in RoleHeaders : AdSlotsRoute(userRole)
  \/ \E userRole \in RoleHeaders, body \in {malformed} \cup InsertAdSlots :
       CreateAdSlotRoute(userRole, body)
  \/ \E userRole \in RoleHeaders, id \in SlotIds, body \in AdminBodies :
       UpdateAdSlotRoute(userRole, id, body)
  \/ \E userRole \in RoleHeaders, id \in SlotIds : DeleteAdSlotRoute(userRole, id)
  \/ \E page \in Pages : ActiveAdSlotsRoute(page)

SpecAdmin == Init /\ [][NextAdmin]_vars

(* ============================ properties =============================== *)
\* users stored by createUser (the administrator, key 1, is stored by the constructor)
createdUsers == {i \in DOMAIN users : users[i].key # 1}

\* C1: for every user that createUser stored with email e and a digest of the password p,
\* authenticateUser(e, p) returns that user, and authenticateUser(e, q) with q # p
\* returns undefined.
C1_AuthenticateCreatedUser ==
  resp.op = "authenticateUser" =>
    \A i \in createdUsers :
      (users[i].email = resp.email /\ users[i].password.kind = "hash") =>
        IF users[i].password.plain = resp.password
        THEN resp.result # undefined /\ resp.result.key = users[i].key
        ELSE resp.result = undefined

\* C2: a create of a user whose email is the email of a stored user is rejected: it
\* never completes by storing and returning a user, neither as a call of createUser nor
\* as a register request answered 200.
C2_DuplicateEmailRejected ==
  /\ resp.op = "createUser" => ~resp.found.email
  /\ (resp.op = "register" /\ resp.status = 200) => ~resp.found.email

\* C3: no two stored users have the same email.
C3_UniqueEmails ==
  \A i, j \in DOMAIN users : i # j => users[i].email # users[j].email

\* C4: no two stored users have the same username, and a create whose username is that
\* of a stored user never completes by storing a user.
C4_UniqueUsernames ==
  /\ \A i, j \in DOMAIN users : i # j => users[i].username # users[j].username
  /\ resp.op = "createUser" => ~resp.found.username
  /\ (resp.op = "register" /\ resp.status = 200) => ~resp.found.username

\* C5: the password of every stored user is a digest made by the store, never a value a
\* caller supplied.
C5_PasswordsAreHashes ==
  \A i \in DOMAIN users : users[i].password.kind = "hash"

\* C6: updateUser with an id that is no key of the user collection returns undefined
\* and leaves the users, the tool usages and the ad slots as they were.
C6_UpdateAbsentUser ==
  [][\A id \in Ids, updates \in Updates :
       (UpdateUser(id, updates) /\ ~HasKey(users, id)) =>
         (resp'.result = undefined /\ UNCHANGED <<users, toolUsages, adSlots>>)]_vars

\* updateUser was called with an id that is no key, and returned undefined
C6_Witness ==
  resp.op = "updateUser" /\ ~HasKey(users, resp.id) /\ resp.result = undefined

(* ------------------------------ analytics ------------------------------ *)
eventsOf(name) == {i \in DOMAIN toolUsages : toolUsages[i].toolName = name}

successesOf(name) == {i \in eventsOf(name) : toolUsages[i].success}

timedOf(name) == {i \in eventsOf(name) : toolUsages[i].processingTime # absent}

\* the sum of the processing times of the events lo..hi of the tool that carry one
RECURSIVE timeOf(_, _, _)
timeOf(name, lo, hi) ==
  IF lo > hi THEN 0
  ELSE IF lo = hi THEN (IF lo \in timedOf(name) THEN toolUsages[lo].processingTime ELSE 0)
  ELSE timeOf(name, lo, (lo + hi) \div 2) + timeOf(name, ((lo + hi) \div 2) + 1, hi)

\* num / den rounded to the nearest integer, a half upwards
roundedRatio(num, den) == (2 * num + den) \div (2 * den)

statsOf(name) ==
  {i \in DOMAIN resp.result.toolStats : resp.result.toolStats[i].name = name}

\* C7: when tool X was recorded N >= 1 times, S of them with success, toolStats has
\* exactly one entry named X, with usageCount = N and successRate = round(100 * S / N).
C7_ToolSuccessRate ==
  resp.op = "getAnalytics" =>
    \A name \in ToolNames :
      eventsOf(name) # {} =>
        /\ Cardinality(statsOf(name)) = 1
        /\ \A i \in statsOf(name) :
             /\ resp.result.toolStats[i].usageCount = Cardinality(eventsOf(name))
             /\ resp.result.toolStats[i].successRate =
                  roundedRatio(100 * Cardinality(successesOf(name)), Cardinality(eventsOf(name)))

\* C8: avgProcessingTime of a tool is the rounded mean of processingTime over the events
\* of the tool that carry one: the others count neither in the sum nor in the divisor.
C8_MeanOverTimedEvents ==
  resp.op = "getAnalytics" =>
    \A name \in ToolNames :
      timedOf(name) # {} =>
        \A i \in statsOf(name) :
          resp.result.toolStats[i].avgProcessingTime =
            roundedRatio(timeOf(name, 1, Len(toolUsages)), Cardinality(timedOf(name)))

\* C9: with no stored event getAnalytics returns totalUsage 0, mostPopular "No data",
\* popularUsage 0, successRate "0%" and no tool statistics.
C9_EmptyAnalytics ==
  (resp.op = "getAnalytics" /\ toolUsages = << >>) =>
    /\ resp.result.totalUsage = 0
    /\ resp.result.mostPopular = "No data"
    /\ resp.result.popularUsage = 0
    /\ resp.result.successRate = << "0", "%" >>
    /\ resp.result.toolStats = << >>

\* getAnalytics was called on the empty log
C9_Witness == resp.op = "getAnalytics" /\ toolUsages = << >>

isDigit(c) == \E d \in DOMAIN Digits : Digits[d] = c

digitValue(c) == (CHOOSE d \in DOMAIN Digits : Digits[d] = c) - 1

RECURSIVE numberOf(_)
numberOf(chars) ==
  IF chars = << >> THEN 0
  ELSE 10 * numberOf(SubSeq(chars, 1, Len(chars) - 1)) + digitValue(chars[Len(chars)])

\* a percentage with one decimal digit: digits (no needless leading zero), a point, one
\* digit and the percent sign
isPercentage(chars) ==
  /\ Len(chars) >= 4
  /\ chars[Len(chars)] = "%"
  /\ isDigit(chars[Len(chars) - 1])
  /\ chars[Len(chars) - 2] = "."
  /\ \A i \in 1..(Len(chars) - 3) : isDigit(chars[i])
  /\ Len(chars) > 4 => chars[1] # "0"

\* the tenths of a percent a percentage spells
tenthsOf(chars) ==
  10 * numberOf(SubSeq(chars, 1, Len(chars) - 3)) + digitValue(chars[Len(chars) - 1])

successes == {i \in DOMAIN toolUsages : toolUsages[i].success}

\* C10: with N >= 1 stored events, S of them successful, getAnalytics returns
\* totalUsage = N and as successRate the percentage 100 * S / N written with one decimal
\* digit: no other tenth of a percent is nearer to it.
C10_GlobalSuccessRate ==
  (resp.op = "getAnalytics" /\ Len(toolUsages) > 0) =>
    /\ resp.result.totalUsage = Len(toolUsages)
    /\ isPercentage(resp.result.successRate)
    /\ LET off == tenthsOf(resp.result.successRate) * Len(toolUsages)
                    - 1000 * Cardinality(successes)
       IN 2 * off <= Len(toolUsages) /\ 2 * off >= 0 - Len(toolUsages)

\* getAnalytics was called on five events, four of them successful, and returned "80.0%"
C10_Witness ==
  /\ resp.op = "getAnalytics"
  /\ Len(toolUsages) = 5
  /\ Cardinality(successes) = 4
  /\ resp.result.successRate = << "8", "0", ".", "0", "%" >>

(* --------------------------- order of toolStats ------------------------ *)
\* the place in the log of the first event of a tool
firstEventOf(name) == CHOOSE i \in eventsOf(name) : \A j \in eventsOf(name) : i <= j

\* C11: toolStats is ordered by usageCount descending, entries with the same usageCount
\* stand in the order in which their tools first appear in the log, and mostPopular and
\* popularUsage are the name and the usageCount of the first entry, popularUsage being
\* the largest number of events any tool has.
C11_SortedByUsage ==
  (resp.op = "getAnalytics" /\ toolUsages # << >>) =>
    LET stats == resp.result.toolStats
    IN /\ stats # << >>
       /\ \A i, j \in DOMAIN stats :
            i < j =>
              /\ stats[i].usageCount >= stats[j].usageCount
              /\ stats[i].usageCount = stats[j].usageCount =>
                   firstEventOf(stats[i].name) < firstEventOf(stats[j].name)
       /\ resp.result.mostPopular = stats[1].name
       /\ resp.result.popularUsage = stats[1].usageCount
       /\ \A name \in ToolNames : Cardinality(eventsOf(name)) <= resp.result.popularUsage

\* getAnalytics put the tool of the first event behind a tool with more events
C11_Witness ==
  /\ resp.op = "getAnalytics"
  /\ Len(resp.result.toolStats) = 2
  /\ toolUsages[1].toolName = resp.result.toolStats[2].name
  /\ resp.result.toolStats[1].usageCount > resp.result.toolStats[2].usageCount

(* ----------------------------- getToolUsage ---------------------------- *)
\* the stored events that satisfy every filter the filters object names
matching(filters) ==
  {i \in DOMAIN toolUsages :
     filters # undefined =>
       /\ "toolName" \in DOMAIN filters => toolUsages[i].toolName = filters.toolName
       /\ "category" \in DOMAIN filters => toolUsages[i].category = filters.category
       /\ "dateFrom" \in DOMAIN filters => toolUsages[i].timestamp >= filters.dateFrom
       /\ "dateTo" \in DOMAIN filters => toolUsages[i].timestamp <= filters.dateTo}

\* C12: getToolUsage(filters) returns exactly the stored events that satisfy every filter
\* supplied (each once), most recent first; without filters it returns every stored event.
C12_FilteredUsages ==
  resp.op = "getToolUsage" =>
    /\ {resp.result[i] : i \in DOMAIN resp.result} = {toolUsages[i] : i \in matching(resp.filters)}
    /\ Len(resp.result) = Cardinality(matching(resp.filters))
    /\ \A i, j \in DOMAIN resp.result :
         i < j => resp.result[i].timestamp >= resp.result[j].timestamp

(* -------------------------------- ad slots ----------------------------- *)
\* the stored slots of a page that are active
activeOn(page) == {i \in DOMAIN adSlots : adSlots[i].page = page /\ adSlots[i].isActive = TRUE}

\* C13: getActiveAdSlots(p), and the public route with it, returns exactly the stored
\* slots whose page is p and whose isActive is true, each once: no inactive slot, no slot
\* of another page, no deleted slot, and every matching slot.
C13_ActiveAdSlots ==
  /\ resp.op = "getActiveAdSlots" =>
       /\ {resp.result[i] : i \in DOMAIN resp.result} = {adSlots[i] : i \in activeOn(resp.page)}
       /\ Len(resp.result) = Cardinality(activeOn(resp.page))
  /\ resp.op = "GET ad-slots" =>
       /\ {resp.body[i] : i \in DOMAIN resp.body} = {adSlots[i] : i \in activeOn(resp.page)}
       /\ Len(resp.body) = Cardinality(activeOn(resp.page))

\* getActiveAdSlots returned a slot while the page has an inactive slot too, another page
\* has a slot, and a slot has been deleted
C13_Witness ==
  /\ resp.op = "getActiveAdSlots"
  /\ resp.result # << >>
  /\ \E i \in DOMAIN adSlots : adSlots[i].page = resp.page /\ ~adSlots[i].isActive
  /\ \E i \in DOMAIN adSlots : adSlots[i].page # resp.page
  /\ Len(adSlots) < nextId.adSlots - 1

\* C14: deleteAdSlot(id) of a stored slot returns true and removes that slot and no other;
\* deleteAdSlot(id) of an id that is not stored (a second delete of the slot) returns false
\* and changes nothing, and the delete route then answers 404; so of two deletes of an id
\* in a row the second returns false.
C14_DeleteTwice ==
  [][\A id \in SlotIds :
       /\ (resp'.op = "deleteAdSlot" /\ DeleteAdSlot(id)) =>
            /\ resp'.result = HasKey(adSlots, id)
            /\ ~HasKey(adSlots', id)
            /\ adSlots' = SelectSeq(adSlots, LAMBDA slot : slot.id # id)
            /\ ~HasKey(adSlots, id) => UNCHANGED <<users, toolUsages, adSlots>>
       /\ (resp'.op = "DELETE ad-slots" /\ DeleteAdSlotRoute("admin", id)) =>
            /\ resp'.status = IF HasKey(adSlots, id) THEN 200 ELSE 404
            /\ ~HasKey(adSlots', id)
            /\ ~HasKey(adSlots, id) => UNCHANGED <<users, toolUsages, adSlots>>
       /\ (resp.op = "deleteAdSlot" /\ resp'.op = "deleteAdSlot" /\ resp.id = id
             /\ DeleteAdSlot(id)) =>
            (resp'.result = FALSE /\ UNCHANGED <<users, toolUsages, adSlots>>)]_vars

\* deleteAdSlot was called for a slot that was created and deleted before, and returned false
C14_Witness ==
  /\ resp.op = "deleteAdSlot"
  /\ resp.id < nextId.adSlots
  /\ ~HasKey(adSlots, resp.id)
  /\ resp.result = FALSE

(* ------------------------------- sitemap ------------------------------- *)
\* the paths of the ten static pages and of the twelve tool pages
manifestPaths ==
  {"", "/pdf-tools", "/image-tools", "/audio-tools", "/text-tools", "/productivity-tools",
   "/about", "/contact", "/privacy-policy", "/terms-of-service"}

toolPaths ==
  {"/tools/pdf-to-word", "/tools/merge-pdf", "/tools/compress-pdf", "/tools/image-compressor",
   "/tools/background-remover", "/tools/image-resizer", "/tools/audio-converter",
   "/tools/audio-compressor", "/tools/word-counter", "/tools/grammar-checker",
   "/tools/calculator", "/tools/qr-generator"}

\* C15: whatever the store holds, the sitemap has 22 url entries, one for each of the 10
\* static pages and of the 12 tool pages, none repeated, and every loc is
\* https://toolsuitepro.com followed by the path of the page.
C15_SitemapEntries ==
  resp.op = "generateSitemap" =>
    LET urlset == resp.result.urlset
    IN /\ Cardinality(manifestPaths) = 10
       /\ Cardinality(toolPaths) = 12
       /\ Len(urlset) = 22
       /\ \A i, j \in DOMAIN urlset : i # j => urlset[i].loc # urlset[j].loc
       /\ {urlset[i].loc : i \in DOMAIN urlset}
            = {"https://toolsuitepro.com" \o path : path \in manifestPaths \cup toolPaths}

\* the sitemap was generated from a store that holds tool usages and a fourth ad slot
C15_Witness ==
  /\ resp.op = "generateSitemap"
  /\ Len(toolUsages) = MaxUsages
  /\ Len(adSlots) > Len(defaultSlots)
  /\ Len(resp.result.urlset) = 22

(* ------------------------------- bootstrap ----------------------------- *)
\* C16: the administrator's record is in the user collection from construction on: no
\* call of authenticateUser and no register request that looked for its email saw the
\* collection without it.
C16_AdminSeeded ==
  (resp.op = "authenticateUser" \/ (resp.op = "register" /\ resp.status = 409)) =>
    (HasKey(users, 1) /\ MapGet(users, 1).role = "admin")

(* ----------------------------- authentication ------------------------- *)
\* the email is that of no stored user
unknownEmail(email) == \A i \in DOMAIN users : users[i].email # email

\* the email is known and the password is not the one of the user it stands for
wrongPassword(email, password) ==
  /\ ~unknownEmail(email)
  /\ ~BcryptCompare(password, getUserByEmail(users, email).password)

\* C17: authenticateUser returns undefined both for an unknown email and for a known email
\* with a wrong password, and the login route gives both the same answer: status 401 with
\* the message "Invalid credentials" and nothing else.
C17_SameFailureSignal ==
  /\ (resp.op = "authenticateUser"
        /\ (unknownEmail(resp.email) \/ wrongPassword(resp.email, resp.password))) =>
       resp.result = undefined
  /\ (resp.op = "login" /\ resp.status # 400 /\ resp.status # 200) =>
       /\ unknownEmail(resp.email) \/ wrongPassword(resp.email, resp.password)
       /\ [f \in (DOMAIN resp) \ {"email", "password"} |-> resp[f]]
            = [op |-> "login", status |-> 401, message |-> "Invalid credentials"]
  /\ (resp.op = "login" /\ resp.status = 200) =>
       ~unknownEmail(resp.user.email)

\* a login with a known email and a wrong password was answered 401
C17_Witness ==
  /\ resp.op = "login"
  /\ resp.status = 401
  /\ wrongPassword(resp.email, resp.password)

\* C18: a success response of the register, login or profile route carries the stored
\* record of the user without its password field, and nothing else of the user.
C18_NoPasswordInResponse ==
  (resp.op \in {"register", "login", "profile"} /\ resp.status = 200) =>
    /\ "password" \notin DOMAIN resp.user
    /\ HasKey(users, resp.user.key)
    /\ DOMAIN resp.user = (DOMAIN MapGet(users, resp.user.key)) \ {"password"}
    /\ \A f \in DOMAIN resp.user : resp.user[f] = MapGet(users, resp.user.key)[f]

\* a login succeeded and was answered with the user
C18_Witness ==
  /\ resp.op = "login"
  /\ resp.status = 200
  /\ resp.user.email = AdminEmail

(* -------------------------------- creates ------------------------------ *)
\* the collection after is the collection before with one entry more, under a key that
\* was not in it
grownByOne(before, after) ==
  /\ Len(after) = Len(before) + 1
  /\ SubSeq(after, 1, Len(before)) = before
  /\ ~HasKey(before, after[Len(after)].key)

\* C19: however the creates of users, tool usages and ad slots interleave (the creates of
\* the constructor among them), every create stores its record under an identifier that is
\* not in its collection: the collection keeps its entries and grows by exactly one.
C19_FreshIdentifiers ==
  [][/\ (InitializeAdminUser \/ \E p \in pending : CreateUserDone(p)) => grownByOne(users, users')
     /\ (\E usage \in FailedUsages : CreateToolUsage(usage)) => grownByOne(toolUsages, toolUsages')
     /\ (InitializeDefaultAdSlot \/ \E adSlot \in InsertAdSlots : CreateAdSlot(adSlot))
          => grownByOne(adSlots, adSlots')
     /\ \A p, q \in pending : p.id = q.id => p = q
     /\ \A p \in pending : ~HasKey(users, p.id)]_vars

\* two calls of createUser have stored their users while the hash of the administrator
\* was computed, the administrator is stored after them, and a tool usage and a fourth ad
\* slot are stored too
C19_Witness ==
  /\ Len(users) = 3
  /\ users[3].key = 1
  /\ Len(toolUsages) > 0
  /\ Len(adSlots) > Len(defaultSlots)

(* ----------------------- overlapping register requests ----------------- *)
\* the stored users with the email that a register request created (the administrator,
\* key 1, is stored by the constructor)
registeredWith(email) == {i \in createdUsers : users[i].email = email}

\* C20: register requests behave as if handled one after another: of the requests with one
\* email, those that overlap included, one is answered with the user and the others with
\* the duplicate outcome, so a request answered with a user leaves that user as the only
\* registered user with the email.
C20_RegisterSerializable ==
  (resp.op = "register" /\ resp.status = 200) =>
    Cardinality(registeredWith(resp.user.email)) = 1

(* ------------------------- updates of user records --------------------- *)
\* C21: updateUser(id, updates) on a stored id stores and returns the record in which
\* every field that updates names has the value supplied and every other field the value
\* it had, except updatedAt, which is the time of the update and not earlier than it was;
\* no other user changes.
C21_UpdateMerges ==
  [][\A id \in Ids, updates \in StampedUpdates :
       (resp'.op = "updateUser" /\ HasKey(users, id) /\ UpdateUser(id, updates)) =>
         LET old == MapGet(users, id)
             new == MapGet(users', id)
         IN /\ resp'.result = new
            /\ DOMAIN new = DOMAIN old
            /\ \A f \in (DOMAIN updates) \ {"updatedAt"} : new[f] = updates[f]
            /\ \A f \in (DOMAIN old) \ ((DOMAIN updates) \cup {"updatedAt"}) : new[f] = old[f]
            /\ new.updatedAt = now
            /\ new.updatedAt >= old.updatedAt
            /\ Len(users') = Len(users)
            /\ \A i \in DOMAIN users : users[i].key # id => users'[i] = users[i]]_vars

\* updateUser gave a created user the administrator's email, after the clock had advanced
C21_Witness ==
  /\ resp.op = "updateUser"
  /\ resp.result # undefined
  /\ resp.result.key # 1
  /\ resp.result.email = AdminEmail
  /\ resp.result.updatedAt > resp.result.createdAt
  /\ Len(users) = 2

(* ---------------------------- default ad slots ------------------------- *)
\* the slots are three, all active, one for each of the pages of the default slots
threeDefaults(slots) ==
  /\ Len(slots) = 3
  /\ \A page \in {"home", "pdf-tools", "universal-tool"} :
       Cardinality({i \in DOMAIN slots : slots[i].page = page /\ slots[i].isActive}) = 1
  /\ \A i, j \in DOMAIN slots : i # j => slots[i].key # slots[j].key

\* C22: when the bootstrap has finished, the ad slots are the three default slots, each
\* once; no request is handled before, and afterwards a default slot is stored at most
\* once and leaves the collection only by a delete of its own id: creates and deletes of
\* other slots neither lose nor duplicate it.
C22_ThreeDefaultSlots ==
  [][/\ (~Serving /\ Serving') => threeDefaults(adSlots')
     /\ ~Serving => resp'.op \in {"initializeDefaultAdSlots", "initializeAdminUser"}
     /\ \A id \in DOMAIN defaultSlots :
          /\ Cardinality({i \in DOMAIN adSlots' : adSlots'[i].key = id}) <= 1
          /\ (Serving /\ HasKey(adSlots, id) /\ ~HasKey(adSlots', id)) =>
               (resp'.op \in {"deleteAdSlot", "DELETE ad-slots"} /\ resp'.id = id)
          /\ (Serving /\ ~HasKey(adSlots, id)) => ~HasKey(adSlots', id)]_vars

\* a fourth slot was created and deleted again, and the three default slots are stored
C22_Witness ==
  /\ resp.op = "deleteAdSlot"
  /\ resp.result
  /\ resp.id = Len(defaultSlots) + 1
  /\ \A id \in DOMAIN defaultSlots : HasKey(adSlots, id)
  /\ Len(adSlots) = Len(defaultSlots)

(* ----------------------------- append-only log ------------------------- *)
\* C23: the tool usages are an append-only log: every stored event stays stored, at its
\* place and with every field (the timestamp too) as it was, whatever operation runs.
C23_AppendOnlyLog ==
  [][/\ Len(toolUsages') >= Len(toolUsages)
     /\ \A i \in DOMAIN toolUsages : toolUsages'[i] = toolUsages[i]]_vars

\* getToolUsage returned the three stored events most recent first, which is not the
\* order of the log, and the log is as it was
C23_Witness ==
  /\ resp.op = "getToolUsage"
  /\ Len(toolUsages) = 3
  /\ Len(resp.result) = 3
  /\ resp.result # toolUsages
  /\ \A i \in DOMAIN toolUsages : toolUsages[i].key = i

(* ------------------------------ frame effects -------------------------- *)
\* the operations by the collection they belong to; resp'.op names the operation of a step
userOperations == {"initializeAdminUser", "createUser", "updateUser"}

toolUsageOperations == {"createToolUsage"}

adSlotOperations == {"initializeDefaultAdSlots", "createAdSlot", "updateAdSlot", "deleteAdSlot"}

readOperations ==
  {"getUser", "getUserByEmail", "getUserByUsername", "authenticateUser", "getToolUsage",
   "getAnalytics", "getAdSlots", "getActiveAdSlots", "generateSitemap"}

\* C24: an operation changes at most one collection: a user operation leaves the tool
\* usages and the ad slots as they were, a tool-usage operation the users and the ad
\* slots, an ad-slot operation the users and the tool usages, and a read operation all
\* three; the start of a createUser, before its hash is there, changes none either.
C24_OneCollection ==
  [][/\ resp'.op \in userOperations \cup toolUsageOperations \cup adSlotOperations \cup readOperations
     /\ resp'.op \in userOperations => UNCHANGED <<toolUsages, adSlots>>
     /\ resp'.op \in toolUsageOperations => UNCHANGED <<users, adSlots>>
     /\ resp'.op \in adSlotOperations => UNCHANGED <<users, toolUsages>>
     /\ resp'.op \in readOperations => UNCHANGED <<users, toolUsages, adSlots>>
     /\ nextId'.users # nextId.users => UNCHANGED <<users, toolUsages, adSlots>>]_vars

\* getAnalytics was called while each collection holds a record created by a request
C24_Witness ==
  /\ resp.op = "getAnalytics"
  /\ Len(users) = 2
  /\ Len(toolUsages) = MaxUsages
  /\ Len(adSlots) > Len(defaultSlots)

(* ---------------------------- no cached analytics ---------------------- *)
\* the calls of createToolUsage that have completed
completedCreates == nextId.toolUsages - 1

\* C25: getAnalytics is computed from the events stored when it is called: after k
\* completed calls of createToolUsage it reports totalUsage = k, so every completed call
\* raises the next totalUsage by one and no earlier result is given again.
C25_FreshAnalytics ==
  resp.op = "getAnalytics" => resp.result.totalUsage = completedCreates

\* getAnalytics was called after three calls of createToolUsage and reported three
C25_Witness ==
  /\ resp.op = "getAnalytics"
  /\ completedCreates = 3
  /\ resp.result.totalUsage = 3

(* -------------------- records in the hands of a caller ----------------- *)
\* C26: a record that a read or a create returned is the caller's own: when the caller
\* modifies a field of it, the records in the three collections stay as they are.
C26_ReturnedRecordsImmutable ==
  [][resp'.op = "modifyReturned" => UNCHANGED <<users, toolUsages, adSlots>>]_vars

(* -------------------------- id, key and createdAt ---------------------- *)
\* every record of the collection has the id it is stored under
idIsKey(m) == \A i \in DOMAIN m : m[i].id = m[i].key

\* the records stored before and after under one key have the same createdAt
createdAtKept(before, after) ==
  \A i \in DOMAIN before, j \in DOMAIN after :
    before[i].key = after[j].key => before[i].createdAt = after[j].createdAt

\* C27: every stored user and every stored ad slot has an id equal to the key it is
\* stored under, and no operation (updateUser, updateAdSlot and the PATCH route among
\* them) changes the createdAt of a stored record.
C27_IdIsKey ==
  [][/\ idIsKey(users')
     /\ idIsKey(adSlots')
     /\ createdAtKept(users, users')
     /\ createdAtKept(adSlots, adSlots')]_vars

(* ------------------------------ administrators ------------------------- *)
\* C28: whatever register, login and profile requests are handled, and whatever role
\* their bodies name, every registered user has the role "user" and the only user with
\* the role "admin" is the administrator the constructor stores.
C28_AdminsNeverGrow ==
  /\ \A i \in DOMAIN users : users[i].role = "admin" => users[i].key = 1
  /\ \A i \in createdUsers : users[i].role = "user"

\* a profile request of a registered user succeeded, and the user has the role "user"
C28_Witness ==
  /\ resp.op = "profile"
  /\ resp.status = 200
  /\ resp.user.key # 1
  /\ resp.user.role = "user"

(* ------------------------------ admin routes --------------------------- *)
\* the step answered 403 and changed none of the three collections
denied == resp'.status = 403 /\ UNCHANGED <<users, toolUsages, adSlots>>

\* the step is a request to an admin route with this user-role header
adminRequest(userRole) ==
  \/ resp'.op = "GET analytics" /\ AnalyticsRoute(userRole)
  \/ resp'.op = "GET admin ad-slots" /\ AdSlotsRoute(userRole)
  \/ resp'.op = "POST ad-slots"
       /\ \E body \in {malformed} \cup InsertAdSlots : CreateAdSlotRoute(userRole, body)
  \/ resp'.op = "PATCH ad-slots"
       /\ \E id \in SlotIds, body \in AdminBodies : UpdateAdSlotRoute(userRole, id, body)
  \/ resp'.op = "DELETE ad-slots"
       /\ \E id \in SlotIds : DeleteAdSlotRoute(userRole, id)

\* C29: a request to one of the five admin routes whose user-role header is not "admin"
\* (or is missing) is answered 403 and changes none of the three collections; and once
\* requests are served, a step that changes the ad slots is a create, update or delete
\* request whose user-role header is "admin".
C29_AdminOnly ==
  [][/\ \A userRole \in RoleHeaders \ {"admin"} : adminRequest(userRole) => denied
     /\ (Serving /\ adSlots' # adSlots) => adminRequest("admin")]_vars

\* a delete request without the admin role named a stored slot and was answered 403
C29_Witness ==
  /\ resp.op = "DELETE ad-slots"
  /\ resp.status = 403
  /\ HasKey(adSlots, resp.id)

(* --------------------------- entries of toolStats ---------------------- *)
\* the usageCount values of the entries added up
RECURSIVE usageSum(_)
usageSum(stats) ==
  IF stats = << >> THEN 0 ELSE stats[1].usageCount + usageSum(Tail(stats))

\* C30: when the log is not empty, toolStats of getAnalytics has exactly one entry for
\* every tool that has an event and none for any other name, every entry has a usageCount
\* of at least 1 and a successRate from 0 to 100, and the usageCount values add up to
\* totalUsage.
C30_OneEntryPerTool ==
  (resp.op = "getAnalytics" /\ toolUsages # << >>) =>
    LET stats == resp.result.toolStats
    IN /\ \A name \in ToolNames :
            Cardinality({i \in DOMAIN stats : stats[i].name = name})
              = IF eventsOf(name) # {} THEN 1 ELSE 0
       /\ \A i \in DOMAIN stats :
            /\ stats[i].name \in ToolNames
            /\ stats[i].usageCount >= 1
            /\ 0 <= stats[i].successRate
            /\ stats[i].successRate <= 100
       /\ usageSum(stats) = resp.result.totalUsage
       /\ resp.result.totalUsage = Len(toolUsages)

\* getAnalytics ran on a log of three events of two tools
C30_Witness ==
  /\ resp.op = "getAnalytics"
  /\ Len(toolUsages) = 3
  /\ Len(resp.result.toolStats) = 2

====
